---------------------------- MODULE Spec2Model ----------------------------
(***************************************************************************)
(* Wave spectrum estimation: a model of src/src/utils.c,                    *)
(* src/src/signalProcessing.c, src/src/waveEstimation.c and src/src/main.c. *)
(*                                                                         *)
(* Numbers.  A float is modelled by an exact rational <<n, d>> (d > 0, in  *)
(* lowest terms), +infinity by <<1, 0>> and NaN by <<0, 0>>; rounding is   *)
(* not modelled.  sqrtf of a rational is kept as the symbol                *)
(* <<"sqrt", q>>, whose square is q.                                       *)
(*                                                                         *)
(* size_t.  The width of size_t is the state variable bits, chosen by each *)
(* specification's initial condition; SIZE_MAX is 2^bits - 1 and size_t    *)
(* arithmetic wraps modulo 2^bits.                                         *)
(*                                                                         *)
(* Heap.  heap is the sequence of all blocks ever allocated; a pointer is  *)
(* an index into it and 0 is NULL.  A block records whether it is still    *)
(* allocated (live), how often it has been released, and its elements.     *)
(***************************************************************************)
EXTENDS Integers, Sequences, FiniteSets, TLC

VARIABLES
    bits,       \* width of size_t in bits
    heap,       \* sequence of blocks [live, released, data]
    bufs,       \* Buffer name -> [heapPointer, size]
    pc,         \* position of the running program / harness
    call,       \* the last library call made, with what it was given and did
    args,       \* main: CommandLineArguments
    files,      \* the three input files, once read
    rv,         \* returnValue of main, characteriseRAO, estimateWaveSpectrum, and
                \* what each failed readFloatsFromFileToHeapBuffer returned
    log,        \* the library calls made so far, in order
    printed     \* the spectrum lines printed by main

runVars == <<args, files, rv, log, printed>>

vars == <<bits, heap, bufs, pc, call, args, files, rv, log, printed>>

---------------------------------------------------------------------------
(* Bounds of the model *)

\* largest size_t width tried for roundUpToNextHighestPowerOfTwo
MaxBits == 6
\* largest Buffer size requested by the buffer harness
MaxSize == 2
\* number of blocks the buffer harness may allocate
MaxBlocks == 2
\* number of times the buffer harness may call freeHeapBuffer in a row
MaxFrees == 2
\* longest time series handed to calculatePowerSpectrum by its harness
MaxSeries == 4
\* longest spectrum handed to the elementwise division by its harness
MaxBins == 3
\* largest number of values in an input file of the program
MaxLen == 4

---------------------------------------------------------------------------
(* Exact rational arithmetic standing for float *)

Abs(x) == IF x < 0 THEN -x ELSE x

RECURSIVE GCD(_, _)
GCD(a, b) == IF b = 0 THEN a ELSE GCD(b, a % b)

Norm(n, d) ==
    LET g == GCD(Abs(n), Abs(d))
        s == IF d < 0 THEN -1 ELSE 1
    IN  <<(s * n) \div g, (s * d) \div g>>

R(n) == <<n, 1>>
Zero == <<0, 1>>
One == <<1, 1>>
INFINITY == <<1, 0>>
NaN == <<0, 0>>

IsFinite(x) == x[2] # 0

RAdd(x, y) == Norm(x[1] * y[2] + y[1] * x[2], x[2] * y[2])
RSub(x, y) == Norm(x[1] * y[2] - y[1] * x[2], x[2] * y[2])
RMul(x, y) == Norm(x[1] * y[1], x[2] * y[2])

\* IEEE division for a denominator that is not NaN: x / 0 is an infinity or
\* NaN, finite / infinity is 0, infinity / infinity is NaN
RDiv(x, y) ==
    IF IsFinite(x) /\ IsFinite(y) /\ y[1] # 0 THEN Norm(x[1] * y[2], x[2] * y[1])
    ELSE IF IsFinite(x) /\ IsFinite(y) THEN (IF x[1] = 0 THEN NaN
                                             ELSE IF x[1] > 0 THEN INFINITY
                                             ELSE <<-1, 0>>)
    ELSE IF IsFinite(x) THEN (IF y = NaN THEN NaN ELSE Zero)
    ELSE IF IsFinite(y) THEN x
    ELSE NaN

---------------------------------------------------------------------------
(* size_t *)

RECURSIVE Pow2(_)
Pow2(k) == IF k = 0 THEN 1 ELSE 2 * Pow2(k - 1)

SIZE_MAX == Pow2(bits) - 1

sizeofFloat == 4
sizeofComplex == 8

\* The build has a 64-bit size_t.  The specifications that run the transform
\* use the scaled-down width SizeBits, on which a series of up to 4 samples
\* can be transformed (a radix-2 transform of 8 complex values does not fit
\* into SIZE_MAX bytes) and lengths above SIZE_MAX / 2 are within reach.
SizeBits == 6

---------------------------------------------------------------------------
(* The C heap: calloc, reallocarray, free *)

NULL == 0

\* values an uninitialised heap cell can hold
HeapJunk == {Zero, R(7)}

\* calloc and reallocarray return NULL when nmemb * size overflows size_t
Allocatable(nmemb, size) == nmemb * size <= SIZE_MAX

NewBlock(data) == [live |-> TRUE, released |-> 0, data |-> data]

IsLive(h, p) == p # NULL /\ p \in 1..Len(h) /\ h[p].live

\* free(p): releasing a block that is not allocated is a double free
Release(h, p) ==
    IF p = NULL THEN h
    ELSE [h EXCEPT ![p].live = FALSE, ![p].released = @ + 1, ![p].data = <<>>]

LiveBlocks(h) == {p \in 1..Len(h) : h[p].live}

\* the heap after calloc(nmemb, size) succeeded: nmemb elements, all bits zero
\* (zero is the element whose bits are all zero); the new pointer is Len(h) + 1
Calloc(h, nmemb, zero) == Append(h, NewBlock([i \in 1..nmemb |-> zero]))

\* whether calloc(nmemb, size) returns a block.  ok: whether memory is left;
\* zeroNull: whether this libc answers a request for 0 bytes with NULL
CallocSucceeds(nmemb, size, ok, zeroNull) ==
    IF nmemb = 0 THEN ~zeroNull ELSE ok /\ Allocatable(nmemb, size)

---------------------------------------------------------------------------
(* utils.h / utils.c: Buffer *)

EmptyBuffer == [heapPointer |-> NULL, size |-> 0]

\* the elements of a Buffer (the first size elements of its block)
Contents(h, b) ==
    IF IsLive(h, b.heapPointer) THEN h[b.heapPointer].data ELSE <<>>

\* mutant: the new storage is attached but buf->size is not updated
extendHeapBufferKeepsSize(h, b, newSize, ok, garbage) ==
    IF newSize <= b.size THEN [heap |-> h, buf |-> b, rc |-> 0]
    ELSE IF ~ok \/ ~Allocatable(newSize, sizeofFloat)
    THEN [heap |-> h, buf |-> [heapPointer |-> NULL, size |-> 0], rc |-> 1]
    ELSE [heap |-> Append(Release(h, b.heapPointer),
                          NewBlock([i \in 1..newSize |->
                                      IF i <= b.size THEN Contents(h, b)[i]
                                      ELSE garbage[i - b.size]])),
          buf |-> [heapPointer |-> Len(h) + 1, size |-> b.size],
          rc |-> 0]

\* mutant: when reallocarray fails the Buffer is left as it was
extendHeapBufferKeepsOld(h, b, newSize, ok, garbage) ==
    IF newSize <= b.size THEN [heap |-> h, buf |-> b, rc |-> 0]
    ELSE IF ~ok \/ ~Allocatable(newSize, sizeofFloat)
    THEN [heap |-> h, buf |-> b, rc |-> 1]
    ELSE [heap |-> Append(Release(h, b.heapPointer),
                          NewBlock([i \in 1..newSize |->
                                      IF i <= b.size THEN Contents(h, b)[i]
                                      ELSE garbage[i - b.size]])),
          buf |-> [heapPointer |-> Len(h) + 1, size |-> newSize],
          rc |-> 0]

\* extendHeapBuffer(buf, newSize).  ok: whether reallocarray finds memory;
\* garbage: what the memory of the new elements held before (reallocarray
\* does not initialise it).  On failure reallocarray leaves the old block
\* allocated, and the only pointer to it is overwritten with NULL.
extendHeapBuffer(h, b, newSize, ok, garbage) ==
    IF newSize <= b.size THEN [heap |-> h, buf |-> b, rc |-> 0]
    ELSE IF ~ok \/ ~Allocatable(newSize, sizeofFloat)
    THEN [heap |-> h, buf |-> [heapPointer |-> NULL, size |-> 0], rc |-> 1]
    ELSE [heap |-> Append(Release(h, b.heapPointer),
                          NewBlock([i \in 1..newSize |->
                                      IF i <= b.size THEN Contents(h, b)[i]
                                      ELSE garbage[i - b.size]])),
          buf |-> [heapPointer |-> Len(h) + 1, size |-> newSize],
          rc |-> 0]

\* freeHeapBuffer(buf): free(buf->heapPointer); the Buffer itself is not changed
freeHeapBuffer(h, b) == Release(h, b.heapPointer)

---------------------------------------------------------------------------
(* signalProcessing.c: roundUpToNextHighestPowerOfTwo *)

\* the loop `while (returnValue < arg) returnValue *= 2` in size_t arithmetic;
\* -1 stands for a loop that wrapped to 0 and never ends
RECURSIVE DoublingLoop(_, _)
DoublingLoop(returnValue, arg) ==
    IF returnValue >= arg THEN returnValue
    ELSE IF returnValue = 0 THEN -1
    ELSE DoublingLoop((returnValue * 2) % (SIZE_MAX + 1), arg)

\* mutant: the guard is off by one (> instead of >=)
roundUpGuardOffByOne(arg) ==
    LET maximumArgument == SIZE_MAX \div 2 + 1
    IN  IF arg > maximumArgument THEN 0 ELSE DoublingLoop(1, arg)

roundUpToNextHighestPowerOfTwo(arg) ==
    LET maximumArgument == SIZE_MAX \div 2 + 1
    IN  IF arg >= maximumArgument THEN 0 ELSE DoublingLoop(1, arg)

---------------------------------------------------------------------------
(* signalProcessing.c: Complex, dit2FFT, fft, periodogram,                 *)
(* calculatePowerSpectrum                                                  *)

ComplexZero == [real |-> Zero, imaginary |-> Zero]

\* the element of a set of one element (a value computed once and then named)
The(S) == CHOOSE v \in S : TRUE

complexAdd(A, B) ==
    [real |-> RAdd(A.real, B.real), imaginary |-> RAdd(A.imaginary, B.imaginary)]

complexSubtract(A, B) ==
    [real |-> RSub(A.real, B.real), imaginary |-> RSub(A.imaginary, B.imaginary)]

complexMultiply(A, B) ==
    [real |-> RSub(RMul(A.real, B.real), RMul(A.imaginary, B.imaginary)),
     imaginary |-> RAdd(RMul(A.real, B.imaginary), RMul(A.imaginary, B.real))]

\* mutant: the angle with the opposite sign
complexExponentConjugate(k, N) ==
    LET quarter == ((4 * k) \div N) % 4
    IN  CASE (4 * k) % N = 0 /\ quarter = 0 -> [real |-> R(1), imaginary |-> R(0)]
          [] (4 * k) % N = 0 /\ quarter = 1 -> [real |-> R(0), imaginary |-> R(1)]
          [] (4 * k) % N = 0 /\ quarter = 2 -> [real |-> R(-1), imaginary |-> R(0)]
          [] (4 * k) % N = 0 /\ quarter = 3 -> [real |-> R(0), imaginary |-> R(-1)]

\* complexExponent(&temp, -2.0 * PI * k / N): cosf and sinf of the angle, exact
\* when the angle is a multiple of a quarter turn (every N <= 4)
complexExponent(k, N) ==
    LET quarter == ((4 * k) \div N) % 4
    IN  CASE (4 * k) % N = 0 /\ quarter = 0 -> [real |-> R(1), imaginary |-> R(0)]
          [] (4 * k) % N = 0 /\ quarter = 1 -> [real |-> R(0), imaginary |-> R(-1)]
          [] (4 * k) % N = 0 /\ quarter = 2 -> [real |-> R(-1), imaginary |-> R(0)]
          [] (4 * k) % N = 0 /\ quarter = 3 -> [real |-> R(0), imaginary |-> R(1)]

\* sqrtf(q), kept exact as a symbol
Sqrtf(q) == [sqrtOf |-> q]

\* F[i] * F[i] for a magnitude F[i]
MulSelf(m) == m.sqrtOf

complexMagnitude(A) ==
    Sqrtf(RAdd(RMul(A.real, A.real), RMul(A.imaginary, A.imaginary)))

\* dit2FFT(F, &x[offset], N, stride): the N output elements F[0..N-1]
RECURSIVE dit2FFT(_, _, _, _)
dit2FFT(x, offset, N, stride) ==
    IF N = 1 THEN <<x[offset + 1]>>
    ELSE LET half == N \div 2
         IN  The({[i \in 1..N |->
                     IF i <= half THEN complexAdd(even[i], q[i])
                     ELSE IF i <= 2 * half
                          THEN complexSubtract(even[i - half], q[i - half])
                          ELSE ComplexZero] :
                  even \in {dit2FFT(x, offset, half, 2 * stride)},
                  q \in {The({[k \in 1..half |->
                                 complexMultiply(complexExponent(k - 1, N), odd[k])] :
                              odd \in {dit2FFT(x, offset + stride, half,
                                               2 * stride)}})}})

\* the length argument of every invocation of dit2FFT, in call order; a call
\* with N = 0 recurses without end (the list is cut after the first one)
RECURSIVE dit2FFTCalls(_)
dit2FFTCalls(N) ==
    IF N <= 1 THEN <<N>>
    ELSE <<N>> \o dit2FFTCalls(N \div 2) \o dit2FFTCalls(N \div 2)

\* the element indices dit2FFT(&F[Fbase], &x[xbase], N, stride) and the
\* invocations it makes use on the arrays F and x of the top-level invocation
\* (a call with N = 0 recurses without end and is cut)
RECURSIVE dit2FFTIndices(_, _, _, _)
dit2FFTIndices(Fbase, xbase, N, stride) ==
    IF N = 0 THEN [F |-> {}, x |-> {}]
    ELSE IF N = 1 THEN [F |-> {Fbase}, x |-> {xbase}]
    ELSE LET half == N \div 2
             even == dit2FFTIndices(Fbase, xbase, half, 2 * stride)
             odd == dit2FFTIndices(Fbase + half, xbase + stride, half, 2 * stride)
         IN  [F |-> even.F \cup odd.F
                      \cup {Fbase + k : k \in 0..(half - 1)}
                      \cup {Fbase + k + half : k \in 0..(half - 1)},
              x |-> even.x \cup odd.x]

\* x[i] of the caller's array; reading past its end is out of bounds
ReadAt(x, i) == IF i \in 1..Len(x) THEN x[i] ELSE NaN

\* fft(F, x, N).  Result: the heap, the return code, the complex spectrum
\* dit2FFT left in Fcplx, the magnitudes written to F[0..spectrumSize-1], the
\* number of input samples read, the dit2FFT invocations, and whether the call
\* ran into undefined behaviour (a write past a zero-size block followed by
\* unbounded recursion) and never returns.
fft(h, x, N, ok1, ok2, zeroNull) ==
    LET spectrumSize == roundUpToNextHighestPowerOfTwo(N)
        gotX == CallocSucceeds(spectrumSize, sizeofComplex, ok1, zeroNull)
        h1 == IF gotX THEN Calloc(h, spectrumSize, ComplexZero) ELSE h
        paddedX == IF gotX THEN Len(h1) ELSE NULL
        gotF == CallocSucceeds(spectrumSize, sizeofComplex, ok2, zeroNull)
        h2 == IF gotF THEN Calloc(h1, spectrumSize, ComplexZero) ELSE h1
        Fcplx == IF gotF THEN Len(h2) ELSE NULL
        padded == [i \in 1..spectrumSize |->
                     IF i <= N THEN [real |-> ReadAt(x, i), imaginary |-> Zero]
                     ELSE ComplexZero]
    IN  IF paddedX = NULL \/ Fcplx = NULL
        THEN [heap |-> h2, rc |-> 1, Fcplx |-> <<>>, F |-> <<>>, reads |-> 0,
              calls |-> <<>>, indices |-> [F |-> {}, x |-> {}],
              crashed |-> FALSE]
        ELSE IF N > spectrumSize
        THEN [heap |-> h2, rc |-> 0, Fcplx |-> <<>>, F |-> <<>>, reads |-> N,
              calls |-> dit2FFTCalls(spectrumSize),
              indices |-> dit2FFTIndices(0, 0, spectrumSize, 1),
              crashed |-> TRUE]
        ELSE The({[heap |-> Release(Release(h2, paddedX), Fcplx), rc |-> 0,
                   Fcplx |-> Fc,
                   F |-> [i \in 1..spectrumSize |-> complexMagnitude(Fc[i])],
                   reads |-> N, calls |-> dit2FFTCalls(spectrumSize),
                   indices |-> dit2FFTIndices(0, 0, spectrumSize, 1),
                   crashed |-> FALSE] :
                  Fc \in {dit2FFT(padded, 0, spectrumSize, 1)}})

\* mutant: only the bins up to the Nyquist frequency are filled
periodogramOneSided(S, F, N) ==
    [i \in 1..Len(S) |-> IF i <= N \div 2 + 1 THEN MulSelf(F[i]) ELSE S[i]]

\* periodogram(S, F, N): S[i] = F[i] * F[i] for i < N, the rest of S untouched
periodogram(S, F, N) ==
    [i \in 1..Len(S) |-> IF i <= N THEN MulSelf(F[i]) ELSE S[i]]

\* calculatePowerSpectrum(powerSpectrum, timeSeriesData, N).  S: the pointer
\* powerSpectrum; x: the caller's time series array; oks: whether each of the
\* three allocations finds memory.  writes: the number of output bins written;
\* outOfBounds: whether an access leaves the caller's arrays.
calculatePowerSpectrum(h, S, x, N, oks, zeroNull) ==
    LET spectrumSize == roundUpToNextHighestPowerOfTwo(N)
        got == CallocSucceeds(spectrumSize, sizeofFloat, oks[1], zeroNull)
        h0 == IF got THEN Calloc(h, spectrumSize, Zero) ELSE h
        frequencySpectrum == IF got THEN Len(h0) ELSE NULL
        capacity == IF IsLive(h, S) THEN Len(h[S].data) ELSE 0
    IN  IF frequencySpectrum = NULL
        THEN [heap |-> h, rc |-> 1, reads |-> 0, writes |-> 0, calls |-> <<>>,
              indices |-> [F |-> {}, x |-> {}],
              crashed |-> FALSE, outOfBounds |-> FALSE]
        ELSE The({
          IF f.crashed
          THEN [heap |-> f.heap, rc |-> 0, reads |-> f.reads, writes |-> 0,
                calls |-> f.calls, indices |-> f.indices,
                crashed |-> TRUE, outOfBounds |-> TRUE]
          ELSE IF f.rc # 0
          THEN [heap |-> f.heap, rc |-> 1, reads |-> 0, writes |-> 0,
                calls |-> <<>>, indices |-> f.indices,
                crashed |-> FALSE, outOfBounds |-> FALSE]
          ELSE [heap |-> Release(IF capacity = 0 THEN f.heap
                                 ELSE [f.heap EXCEPT ![S].data =
                                          periodogram(@, f.F, spectrumSize)],
                                 frequencySpectrum),
                rc |-> 0, reads |-> f.reads, writes |-> spectrumSize,
                calls |-> f.calls, indices |-> f.indices, crashed |-> FALSE,
                outOfBounds |-> (N > Len(x) \/ spectrumSize > capacity)] :
          f \in {fft(h0, x, N, oks[2], oks[3], zeroNull)}})

---------------------------------------------------------------------------
(* waveEstimation.c *)

\* mutant: no test for a zero denominator, the division is left to IEEE
elementWiseDivideNoZeroTest(result, numerator, denominator, N) ==
    [i \in 1..Len(result) |->
        IF i <= N THEN RDiv(numerator[i], denominator[i]) ELSE result[i]]

\* elementWiseDivide(result, numerator, denominator, N): the array result
\* afterwards
elementWiseDivide(result, numerator, denominator, N) ==
    [i \in 1..Len(result) |->
        IF i <= N
        THEN (IF denominator[i] = Zero THEN INFINITY
              ELSE RDiv(numerator[i], denominator[i]))
        ELSE result[i]]

\* mutant: numerator and denominator handed over in the wrong order
calculateRAOInverted(RAO, heaveSpectrum, waveSpectrum, N) ==
    elementWiseDivide(RAO, waveSpectrum, heaveSpectrum, N)

calculateRAO(RAO, heaveSpectrum, waveSpectrum, N) ==
    elementWiseDivide(RAO, heaveSpectrum, waveSpectrum, N)

calculateWaveEnergySpectrum(waveSpectrum, heaveSpectrum, RAO, N) ==
    elementWiseDivide(waveSpectrum, heaveSpectrum, RAO, N)

---------------------------------------------------------------------------
(* utils.c: readFloatsFromFileToHeapBuffer, subtractMean,                  *)
(* numericalIntegration                                                    *)

\* An input file: whether fopen finds it, and the values fscanf("%f,") parses
\* from its start (determineBufferSize counts them, getFloatsFromCSV reads
\* them again after rewind).
MissingFile == [exists |-> FALSE, values |-> <<>>]
Unread == [exists |-> FALSE, values |-> <<>>, unread |-> TRUE]

\* mutant: every failure is reported as success
readFloatsReportsSuccess(h, b, file, ok) ==
    LET size == Len(file.values)
    IN  IF ~file.exists THEN [heap |-> h, buf |-> b, rc |-> 0]
        ELSE IF size = 0
        THEN [heap |-> h, buf |-> [b EXCEPT !.size = 0], rc |-> 0]
        ELSE IF ~CallocSucceeds(size, sizeofFloat, ok, TRUE)
        THEN [heap |-> h, buf |-> [heapPointer |-> NULL, size |-> size], rc |-> 0]
        ELSE [heap |-> Append(h, NewBlock(file.values)),
              buf |-> [heapPointer |-> Len(h) + 1, size |-> size], rc |-> 0]

\* readFloatsFromFileToHeapBuffer(filePath, buf).  ok: whether calloc finds
\* memory.  buf->size is set before the allocation and stays set if it fails.
readFloatsFromFileToHeapBuffer(h, b, file, ok) ==
    LET size == Len(file.values)
    IN  IF ~file.exists THEN [heap |-> h, buf |-> b, rc |-> 1]
        ELSE IF size = 0
        THEN [heap |-> h, buf |-> [b EXCEPT !.size = 0], rc |-> 1]
        ELSE IF ~CallocSucceeds(size, sizeofFloat, ok, TRUE)
        THEN [heap |-> h, buf |-> [heapPointer |-> NULL, size |-> size], rc |-> 1]
        ELSE [heap |-> Append(h, NewBlock(file.values)),
              buf |-> [heapPointer |-> Len(h) + 1, size |-> size], rc |-> 0]

RECURSIVE Sum(_, _)
Sum(data, n) == IF n = 0 THEN Zero ELSE RAdd(Sum(data, n - 1), data[n])

subtractMean(data) ==
    LET total == Sum(data, Len(data))
        mean == RDiv(total, R(Len(data)))
    IN  [i \in 1..Len(data) |-> RSub(data[i], mean)]

\* integrate(&newState, &oldState, newAcceleration, oldAcceleration, dt) of
\* integrate.h: one trapezoidal step for the speed, one for the position
integrate(oldState, newAcceleration, oldAcceleration, dt) ==
    LET speed == RAdd(oldState.speed,
                      RDiv(RMul(dt, RAdd(oldAcceleration, newAcceleration)), R(2)))
    IN  [speed |-> speed,
         position |-> RAdd(oldState.position,
                           RDiv(RMul(dt, RAdd(oldState.speed, speed)), R(2)))]

\* mutant: the previous acceleration is read back from the buffer after the
\* position has been stored there
RECURSIVE IntegrationLoopStale(_, _, _, _, _, _)
IntegrationLoopStale(data, i, oldState, oldAcceleration, dt, steps) ==
    IF i > Len(data) THEN [data |-> data, steps |-> steps]
    ELSE LET newAcceleration == data[i]
             newState == integrate(oldState, newAcceleration, oldAcceleration, dt)
         IN  IntegrationLoopStale([data EXCEPT ![i] = newState.position], i + 1,
                                  newState, newState.position, dt,
                                  Append(steps, [oldState |-> oldState,
                                                 previous |-> oldAcceleration,
                                                 current |-> newAcceleration]))

\* the loop of numericalIntegration from index i on (1-based); steps records
\* what each call of integrate was given
RECURSIVE IntegrationLoop(_, _, _, _, _, _)
IntegrationLoop(data, i, oldState, oldAcceleration, dt, steps) ==
    IF i > Len(data) THEN [data |-> data, steps |-> steps]
    ELSE LET newAcceleration == data[i]
             newState == integrate(oldState, newAcceleration, oldAcceleration, dt)
         IN  IntegrationLoop([data EXCEPT ![i] = newState.position], i + 1,
                             newState, data[i], dt,
                             Append(steps, [oldState |-> oldState,
                                            previous |-> oldAcceleration,
                                            current |-> newAcceleration]))

numericalIntegration(timeSeriesData, dt) ==
    LET r == IntegrationLoop(timeSeriesData, 1, [position |-> Zero, speed |-> Zero],
                             Zero, dt, <<>>)
    IN  [data |-> subtractMean(r.data), steps |-> r.steps]

---------------------------------------------------------------------------
(* main.c: applyUncertainty *)

\* where in [lowerBound, upperBound] libUncertainFloatUniformDist lands
Draws == {<<1, 2>>, One}

libUncertainFloatUniformDist(lowerBound, upperBound, draw) ==
    RAdd(lowerBound, RMul(draw, RSub(upperBound, lowerBound)))

applyUncertainty(data, uncertainty, draw) ==
    [i \in 1..Len(data) |->
        LET value == data[i]
            lowerBound == RSub(value, RDiv(uncertainty, R(2)))
            upperBound == RAdd(value, RDiv(uncertainty, R(2)))
        IN  libUncertainFloatUniformDist(lowerBound, upperBound, draw)]

---------------------------------------------------------------------------
(* main.c: main, characteriseRAO, estimateWaveSpectrum.  One action per    *)
(* statement of these three functions.                                     *)

kMaximumPrintLinesInOutput == 9

\* the CommandLineArguments main may run with: no measurement uncertainty, or
\* an uncertainty of 2 on every input
ArgumentSets ==
    {[heaveMeasurementUncertainty |-> Zero, waveElevationUncertainty |-> Zero,
      accelerometerResolution |-> Zero, timestep |-> One],
     [heaveMeasurementUncertainty |-> R(2), waveElevationUncertainty |-> R(2),
      accelerometerResolution |-> R(2), timestep |-> <<1, 2>>]}

\* two proportional calibration series without noise
ProportionalHeave == [exists |-> TRUE, values |-> <<R(1), R(2), R(1), Zero>>]
ProportionalElevation ==
    [exists |-> TRUE, values |-> <<<<1, 2>>, R(1), <<1, 2>>, Zero>>]

\* the files the program may find: none, or len values, all zero or 1, 2, ...,
\* where len is at most MaxLen or is the least length above SIZE_MAX / 2
InputFiles ==
    {MissingFile} \cup
    {[exists |-> TRUE, values |-> [i \in 1..len |-> IF ramp THEN R(i) ELSE Zero]] :
        len \in (0..MaxLen) \cup {SIZE_MAX \div 2 + 1},
        ramp \in BOOLEAN}

\* a calibration file may also hold one of the two proportional series
CalibrationFiles == InputFiles \cup {ProportionalHeave, ProportionalElevation}

\* what the memory handed out by reallocarray held: the same value everywhere
Garbage(junk) == [i \in 1..SIZE_MAX |-> junk]

Called(caller, fn) == [in |-> caller, fn |-> fn]

\* whether the loops over buf->heapPointer[0 .. size-1] stay in allocated memory
Usable(h, b) == IsLive(h, b.heapPointer) /\ b.size <= Len(h[b.heapPointer].data)

SetData(h, p, data) == [h EXCEPT ![p].data = data]

Init ==
    /\ bits \in {SizeBits}
    /\ heap = <<>>
    /\ bufs = [RAOBuffer |-> EmptyBuffer,
               waveSpectrumEstimateBuffer |-> EmptyBuffer,
               heaveDisplacementBuffer |-> EmptyBuffer,
               waveElevationBuffer |-> EmptyBuffer,
               heaveSpectrumBuffer |-> EmptyBuffer,
               waveSpectrumBuffer |-> EmptyBuffer,
               oceanHeaveBuffer |-> EmptyBuffer,
               heaveSpectrumBufferEst |-> EmptyBuffer]
    /\ pc = "main"
    /\ call = Called("main", "none")
    /\ args \in ArgumentSets
    /\ files = [heave |-> Unread, wave |-> Unread, accel |-> Unread]
    /\ rv = [main |-> 0, characteriseRAO |-> 0, estimateWaveSpectrum |-> 0,
             heave |-> 0, wave |-> 0, accel |-> 0]
    /\ log = <<>>
    /\ printed = <<>>

\* main.c:400-404
MainGetArguments ==
    /\ pc = "main"
    /\ \E parsed \in BOOLEAN :
          /\ pc' = IF parsed THEN "rao_read_heave" ELSE "EXIT_PROGRAM"
          /\ rv' = IF parsed THEN rv ELSE [rv EXCEPT !.main = 1]
    /\ call' = Called("main", "getCommandLineArguments")
    /\ log' = Append(log, Called("main", "getCommandLineArguments"))
    /\ UNCHANGED <<bits, heap, bufs, args, files, printed>>

\* main.c:136-142
RaoReadHeave ==
    /\ pc = "rao_read_heave"
    /\ \E file \in CalibrationFiles, ok \in BOOLEAN :
          LET r == readFloatsFromFileToHeapBuffer(
                       heap, bufs.heaveDisplacementBuffer, file, ok)
          IN  /\ heap' = r.heap
              /\ bufs' = [bufs EXCEPT !.heaveDisplacementBuffer = r.buf]
              /\ files' = [files EXCEPT !.heave = file]
              /\ rv' = IF r.rc # 0
                       THEN [rv EXCEPT !.characteriseRAO = 1, !.heave = r.rc]
                       ELSE rv
              /\ pc' = IF r.rc # 0 THEN "rao_RETURN" ELSE "rao_read_wave"
    /\ call' = Called("characteriseRAO", "readFloatsFromFileToHeapBuffer")
    /\ log' = Append(log, Called("characteriseRAO", "readFloatsFromFileToHeapBuffer"))
    /\ UNCHANGED <<bits, args, printed>>

\* main.c:144-150
RaoReadWave ==
    /\ pc = "rao_read_wave"
    /\ \E file \in CalibrationFiles, ok \in BOOLEAN :
          LET r == readFloatsFromFileToHeapBuffer(
                       heap, bufs.waveElevationBuffer, file, ok)
          IN  /\ heap' = r.heap
              /\ bufs' = [bufs EXCEPT !.waveElevationBuffer = r.buf]
              /\ files' = [files EXCEPT !.wave = file]
              /\ rv' = IF r.rc # 0
                       THEN [rv EXCEPT !.characteriseRAO = 1, !.wave = r.rc]
                       ELSE rv
              /\ pc' = IF r.rc # 0 THEN "rao_RETURN" ELSE "rao_check"
    /\ call' = Called("characteriseRAO", "readFloatsFromFileToHeapBuffer")
    /\ log' = Append(log, Called("characteriseRAO", "readFloatsFromFileToHeapBuffer"))
    /\ UNCHANGED <<bits, args, printed>>

\* mutant: the heave size is compared with itself
sizesDifferSelf(heaveDisplacementBuffer, waveElevationBuffer) ==
    heaveDisplacementBuffer.size # heaveDisplacementBuffer.size

\* main.c:152
sizesDiffer(heaveDisplacementBuffer, waveElevationBuffer) ==
    heaveDisplacementBuffer.size # waveElevationBuffer.size

\* main.c:152-162
RaoCheckLengths ==
    /\ pc = "rao_check"
    /\ LET mismatch == sizesDiffer(bufs.heaveDisplacementBuffer,
                                   bufs.waveElevationBuffer)
       IN  /\ rv' = IF mismatch THEN [rv EXCEPT !.characteriseRAO = 1] ELSE rv
           /\ pc' = IF mismatch THEN "rao_RETURN" ELSE "rao_extend"
    /\ UNCHANGED <<bits, heap, bufs, call, args, files, log, printed>>

\* main.c:167-174: the three extensions, each made only if the one before
\* succeeded
RaoExtend ==
    /\ pc = "rao_extend"
    /\ \E oks \in [1..3 -> BOOLEAN], junk \in HeapJunk :
          LET spectrumBufferSize ==
                  roundUpToNextHighestPowerOfTwo(bufs.heaveDisplacementBuffer.size)
              e1 == extendHeapBuffer(heap, bufs.heaveSpectrumBuffer,
                                     spectrumBufferSize, oks[1], Garbage(junk))
              e2 == extendHeapBuffer(e1.heap, bufs.waveSpectrumBuffer,
                                     spectrumBufferSize, oks[2], Garbage(junk))
              e3 == extendHeapBuffer(e2.heap, bufs.RAOBuffer,
                                     spectrumBufferSize, oks[3], Garbage(junk))
              made == IF e1.rc # 0 THEN 1 ELSE IF e2.rc # 0 THEN 2 ELSE 3
              failed == e1.rc # 0 \/ e2.rc # 0 \/ e3.rc # 0
          IN  /\ heap' = CASE made = 1 -> e1.heap [] made = 2 -> e2.heap
                           [] OTHER -> e3.heap
              /\ bufs' = [bufs EXCEPT
                            !.heaveSpectrumBuffer = e1.buf,
                            !.waveSpectrumBuffer = IF made >= 2 THEN e2.buf ELSE @,
                            !.RAOBuffer = IF made >= 3 THEN e3.buf ELSE @]
              /\ log' = log \o [i \in 1..made |->
                                  Called("characteriseRAO", "extendHeapBuffer")]
              /\ rv' = IF failed THEN [rv EXCEPT !.characteriseRAO = 1] ELSE rv
              /\ pc' = IF failed THEN "rao_RETURN" ELSE "rao_uncertainty"
    /\ call' = Called("characteriseRAO", "extendHeapBuffer")
    /\ UNCHANGED <<bits, args, files, printed>>

\* main.c:176-177
RaoUncertainty ==
    /\ pc = "rao_uncertainty"
    /\ \E d1 \in Draws, d2 \in Draws :
          LET heave == bufs.heaveDisplacementBuffer
              wave == bufs.waveElevationBuffer
              h1 == SetData(heap, heave.heapPointer,
                            applyUncertainty(Contents(heap, heave),
                                             args.heaveMeasurementUncertainty, d1))
          IN  heap' = SetData(h1, wave.heapPointer,
                              applyUncertainty(Contents(h1, wave),
                                               args.waveElevationUncertainty, d2))
    /\ call' = Called("characteriseRAO", "applyUncertainty")
    /\ log' = log \o <<Called("characteriseRAO", "applyUncertainty"),
                       Called("characteriseRAO", "applyUncertainty")>>
    /\ pc' = "rao_power_heave"
    /\ UNCHANGED <<bits, bufs, args, files, rv, printed>>

\* a call calculatePowerSpectrum(S.heapPointer, x.heapPointer, N) made by
\* caller, going on at pc value next when it succeeds and to fail otherwise
\* (main never asks for 0 elements, so the libc's answer to that is left open)
PowerSpectrumStep(caller, S, x, N, next, fail) ==
    \E oks \in [1..3 -> BOOLEAN] :
       \E r \in {calculatePowerSpectrum(heap, S.heapPointer, Contents(heap, x),
                                        N, oks, TRUE)} :
           /\ heap' = r.heap
           /\ call' = [in |-> caller, fn |-> "calculatePowerSpectrum", N |-> N,
                       x |-> Contents(heap, x), rc |-> r.rc, calls |-> r.calls,
                       writes |-> r.writes, outOfBounds |-> r.outOfBounds,
                       reads |-> r.reads, indices |-> r.indices,
                       sizes |-> <<S.size, x.size>>,
                       capacity |-> Len(Contents(heap, S))]
           /\ log' = Append(log, Called(caller, "calculatePowerSpectrum"))
           /\ rv' = IF r.rc # 0 THEN [rv EXCEPT ![caller] = 1] ELSE rv
           /\ pc' = IF r.crashed THEN "crashed"
                    ELSE IF r.rc # 0 THEN fail ELSE next

\* main.c:179-187
RaoPowerHeave ==
    /\ pc = "rao_power_heave"
    /\ PowerSpectrumStep("characteriseRAO", bufs.heaveSpectrumBuffer,
                         bufs.heaveDisplacementBuffer,
                         bufs.heaveDisplacementBuffer.size,
                         "rao_power_wave", "rao_RETURN")
    /\ UNCHANGED <<bits, bufs, args, files, printed>>

\* main.c:189-197
RaoPowerWave ==
    /\ pc = "rao_power_wave"
    /\ PowerSpectrumStep("characteriseRAO", bufs.waveSpectrumBuffer,
                         bufs.waveElevationBuffer,
                         bufs.waveElevationBuffer.size,
                         "rao_calculate", "rao_RETURN")
    /\ UNCHANGED <<bits, bufs, args, files, printed>>

\* a call fn(result.heapPointer, numerator.heapPointer,
\* denominator.heapPointer, N) of one of the two elementwise divisions, made
\* by caller on three Buffers; quotient is the result array afterwards
DivisionStep(caller, fn, result, numerator, denominator, N, quotient) ==
    /\ heap' = SetData(heap, result.heapPointer, quotient)
    /\ call' = [in |-> caller, fn |-> fn, N |-> N,
                sizes |-> <<result.size, numerator.size, denominator.size>>,
                before |-> Contents(heap, result),
                numerator |-> Contents(heap, numerator),
                denominator |-> Contents(heap, denominator),
                result |-> quotient]

\* main.c:199-203
RaoCalculate ==
    /\ pc = "rao_calculate"
    /\ DivisionStep("characteriseRAO", "calculateRAO",
                    bufs.RAOBuffer, bufs.heaveSpectrumBuffer,
                    bufs.waveSpectrumBuffer, bufs.RAOBuffer.size,
                    calculateRAO(Contents(heap, bufs.RAOBuffer),
                                 Contents(heap, bufs.heaveSpectrumBuffer),
                                 Contents(heap, bufs.waveSpectrumBuffer),
                                 bufs.RAOBuffer.size))
    /\ log' = Append(log, Called("characteriseRAO", "calculateRAO"))
    /\ pc' = "rao_RETURN"
    /\ UNCHANGED <<bits, bufs, args, files, rv, printed>>

\* main.c:205-210 and the caller's test, main.c:406-416
RaoReturn ==
    /\ pc = "rao_RETURN"
    /\ heap' = freeHeapBuffer(
                 freeHeapBuffer(
                   freeHeapBuffer(
                     freeHeapBuffer(heap, bufs.heaveDisplacementBuffer),
                     bufs.waveElevationBuffer),
                   bufs.heaveSpectrumBuffer),
                 bufs.waveSpectrumBuffer)
    /\ call' = Called("characteriseRAO", "freeHeapBuffer")
    /\ log' = Append(log, Called("characteriseRAO", "return"))
    /\ rv' = IF rv.characteriseRAO # 0 THEN [rv EXCEPT !.main = 1] ELSE rv
    /\ pc' = IF rv.characteriseRAO # 0 THEN "EXIT_PROGRAM" ELSE "est_read"
    /\ UNCHANGED <<bits, bufs, args, files, printed>>

\* mutant: neither test sends the function to RETURN
inputRejectedNever(rc, size) == FALSE

\* main.c:241-257: estimateWaveSpectrum goes to RETURN if the file could not
\* be read or holds more than SIZE_MAX / 2 values
inputRejected(rc, size) == rc # 0 \/ size > SIZE_MAX \div 2

\* main.c:241-257
EstRead ==
    /\ pc = "est_read"
    /\ \E file \in InputFiles, ok \in BOOLEAN :
          LET r == readFloatsFromFileToHeapBuffer(heap, bufs.oceanHeaveBuffer, file, ok)
              rejected == inputRejected(r.rc, r.buf.size)
          IN  /\ heap' = r.heap
              /\ bufs' = [bufs EXCEPT !.oceanHeaveBuffer = r.buf]
              /\ files' = [files EXCEPT !.accel = file]
              /\ rv' = IF rejected
                       THEN [rv EXCEPT !.estimateWaveSpectrum = 1, !.accel = r.rc]
                       ELSE rv
              /\ pc' = IF rejected THEN "est_RETURN" ELSE "est_uncertainty"
    /\ call' = Called("estimateWaveSpectrum", "readFloatsFromFileToHeapBuffer")
    /\ log' = Append(log, Called("estimateWaveSpectrum", "readFloatsFromFileToHeapBuffer"))
    /\ UNCHANGED <<bits, args, printed>>

\* main.c:262; a loop over a Buffer without storage is an invalid access
EstUncertainty ==
    /\ pc = "est_uncertainty"
    /\ LET ocean == bufs.oceanHeaveBuffer
       IN  IF Usable(heap, ocean)
           THEN /\ \E draw \in Draws :
                     heap' = SetData(heap, ocean.heapPointer,
                                     applyUncertainty(Contents(heap, ocean),
                                                      args.accelerometerResolution,
                                                      draw))
                /\ pc' = "est_integrate"
           ELSE /\ heap' = heap
                /\ pc' = IF ocean.size = 0 THEN "est_integrate" ELSE "crashed"
    /\ call' = Called("estimateWaveSpectrum", "applyUncertainty")
    /\ log' = Append(log, Called("estimateWaveSpectrum", "applyUncertainty"))
    /\ UNCHANGED <<bits, bufs, args, files, rv, printed>>

\* main.c:267; numericalIntegration reads heapPointer[0] whatever the size
EstIntegrate ==
    /\ pc = "est_integrate"
    /\ LET ocean == bufs.oceanHeaveBuffer
           r == numericalIntegration(Contents(heap, ocean), args.timestep)
       IN  IF Usable(heap, ocean) /\ ocean.size > 0
           THEN /\ heap' = SetData(heap, ocean.heapPointer, r.data)
                /\ call' = [in |-> "estimateWaveSpectrum", fn |-> "numericalIntegration",
                            accel |-> Contents(heap, ocean), steps |-> r.steps]
                /\ pc' = "est_pad"
           ELSE /\ heap' = heap
                /\ call' = [in |-> "estimateWaveSpectrum", fn |-> "numericalIntegration",
                            accel |-> <<>>, steps |-> <<>>]
                /\ pc' = "crashed"
    /\ log' = Append(log, Called("estimateWaveSpectrum", "numericalIntegration"))
    /\ UNCHANGED <<bits, bufs, args, files, rv, printed>>

\* mutant: the heave buffer is never padded
needsPaddingNever(oceanHeaveBuffer, RAOBuffer) == FALSE

\* main.c:269
needsPadding(oceanHeaveBuffer, RAOBuffer) == oceanHeaveBuffer.size < RAOBuffer.size

\* main.c:269-279
EstPad ==
    /\ pc = "est_pad"
    /\ IF needsPadding(bufs.oceanHeaveBuffer, bufs.RAOBuffer)
       THEN \E ok \in BOOLEAN, junk \in HeapJunk :
               LET e == extendHeapBuffer(heap, bufs.oceanHeaveBuffer,
                                         bufs.RAOBuffer.size, ok, Garbage(junk))
               IN  /\ heap' = e.heap
                   /\ bufs' = [bufs EXCEPT !.oceanHeaveBuffer = e.buf]
                   /\ call' = [in |-> "estimateWaveSpectrum", fn |-> "extendHeapBuffer",
                               before |-> Contents(heap, bufs.oceanHeaveBuffer),
                               rc |-> e.rc]
                   /\ log' = Append(log, Called("estimateWaveSpectrum", "extendHeapBuffer"))
                   /\ rv' = IF e.rc # 0 THEN [rv EXCEPT !.estimateWaveSpectrum = 1]
                            ELSE rv
                   /\ pc' = IF e.rc # 0 THEN "est_RETURN" ELSE "est_extend"
       ELSE /\ pc' = "est_extend"
            /\ UNCHANGED <<heap, bufs, call, log, rv>>
    /\ UNCHANGED <<bits, args, files, printed>>

\* main.c:284-289
EstExtend ==
    /\ pc = "est_extend"
    /\ \E oks \in [1..2 -> BOOLEAN], junk \in HeapJunk :
          LET e1 == extendHeapBuffer(heap, bufs.heaveSpectrumBufferEst,
                                     bufs.RAOBuffer.size, oks[1], Garbage(junk))
              e2 == extendHeapBuffer(e1.heap, bufs.waveSpectrumEstimateBuffer,
                                     bufs.RAOBuffer.size, oks[2], Garbage(junk))
              made == IF e1.rc # 0 THEN 1 ELSE 2
              failed == e1.rc # 0 \/ e2.rc # 0
          IN  /\ heap' = IF made = 1 THEN e1.heap ELSE e2.heap
              /\ bufs' = [bufs EXCEPT
                            !.heaveSpectrumBufferEst = e1.buf,
                            !.waveSpectrumEstimateBuffer =
                                IF made >= 2 THEN e2.buf ELSE @]
              /\ log' = log \o [i \in 1..made |->
                                  Called("estimateWaveSpectrum", "extendHeapBuffer")]
              /\ rv' = IF failed THEN [rv EXCEPT !.estimateWaveSpectrum = 1] ELSE rv
              /\ pc' = IF failed THEN "est_RETURN" ELSE "est_power"
    /\ call' = Called("estimateWaveSpectrum", "extendHeapBuffer")
    /\ UNCHANGED <<bits, args, files, printed>>

\* main.c:294-302: the length passed is heaveSpectrumBuffer.size
EstPower ==
    /\ pc = "est_power"
    /\ PowerSpectrumStep("estimateWaveSpectrum", bufs.heaveSpectrumBufferEst,
                         bufs.oceanHeaveBuffer, bufs.heaveSpectrumBufferEst.size,
                         "est_calculate", "est_RETURN")
    /\ UNCHANGED <<bits, bufs, args, files, printed>>

\* main.c:304-308
EstCalculate ==
    /\ pc = "est_calculate"
    /\ DivisionStep("estimateWaveSpectrum", "calculateWaveEnergySpectrum",
                    bufs.waveSpectrumEstimateBuffer, bufs.heaveSpectrumBufferEst,
                    bufs.RAOBuffer, bufs.RAOBuffer.size,
                    calculateWaveEnergySpectrum(
                        Contents(heap, bufs.waveSpectrumEstimateBuffer),
                        Contents(heap, bufs.heaveSpectrumBufferEst),
                        Contents(heap, bufs.RAOBuffer),
                        bufs.RAOBuffer.size))
    /\ log' = Append(log, Called("estimateWaveSpectrum", "calculateWaveEnergySpectrum"))
    /\ pc' = "est_RETURN"
    /\ UNCHANGED <<bits, bufs, args, files, rv, printed>>

\* main.c:310-313 and the caller's test, main.c:418-427
EstReturn ==
    /\ pc = "est_RETURN"
    /\ heap' = freeHeapBuffer(freeHeapBuffer(heap, bufs.oceanHeaveBuffer),
                              bufs.heaveSpectrumBufferEst)
    /\ call' = Called("estimateWaveSpectrum", "freeHeapBuffer")
    /\ log' = Append(log, Called("estimateWaveSpectrum", "return"))
    /\ rv' = IF rv.estimateWaveSpectrum # 0 THEN [rv EXCEPT !.main = 1] ELSE rv
    /\ pc' = IF rv.estimateWaveSpectrum # 0 THEN "EXIT_PROGRAM" ELSE "main_print"
    /\ UNCHANGED <<bits, bufs, args, files, printed>>

\* main.c:436-450: the lines printed, (frequency, wave energy spectral density)
SpectrumLines(estimate, size, RAOsize, timestep) ==
    LET maximumIndex == size \div 2
        arrayInterval == IF maximumIndex > kMaximumPrintLinesInOutput
                         THEN maximumIndex \div (kMaximumPrintLinesInOutput - 1)
                         ELSE 1
        count == maximumIndex \div arrayInterval + 1
        deltaF == RDiv(One, RMul(timestep, R(RAOsize)))
    IN  [n \in 1..count |->
            LET i == (n - 1) * arrayInterval
            IN  [frequency |-> RMul(deltaF, R(i)), density |-> estimate[i + 1]]]

\* main.c:429-451
MainPrint ==
    /\ pc = "main_print"
    /\ IF bufs.waveSpectrumEstimateBuffer.heapPointer = NULL
       THEN /\ rv' = [rv EXCEPT !.main = 1]
            /\ printed' = printed
       ELSE /\ rv' = rv
            /\ printed' = SpectrumLines(Contents(heap, bufs.waveSpectrumEstimateBuffer),
                                        bufs.waveSpectrumEstimateBuffer.size,
                                        bufs.RAOBuffer.size, args.timestep)
    /\ pc' = "EXIT_PROGRAM"
    /\ UNCHANGED <<bits, heap, bufs, call, args, files, log>>

\* main.c:453-456
MainExit ==
    /\ pc = "EXIT_PROGRAM"
    /\ heap' = freeHeapBuffer(freeHeapBuffer(heap, bufs.RAOBuffer),
                              bufs.waveSpectrumEstimateBuffer)
    /\ call' = Called("main", "freeHeapBuffer")
    /\ log' = Append(log, Called("main", "return"))
    /\ pc' = "done"
    /\ UNCHANGED <<bits, bufs, args, files, rv, printed>>

Next ==
    \/ MainGetArguments
    \/ RaoReadHeave \/ RaoReadWave \/ RaoCheckLengths \/ RaoExtend
    \/ RaoUncertainty \/ RaoPowerHeave \/ RaoPowerWave \/ RaoCalculate \/ RaoReturn
    \/ EstRead \/ EstUncertainty \/ EstIntegrate \/ EstPad \/ EstExtend
    \/ EstPower \/ EstCalculate \/ EstReturn
    \/ MainPrint \/ MainExit

Spec == Init /\ [][Next]_vars

---------------------------------------------------------------------------
(* The harnesses below call library functions directly; main is not run.   *)

NoRun ==
    /\ args = <<>>
    /\ files = <<>>
    /\ rv = <<>>
    /\ log = <<>>
    /\ printed = <<>>

---------------------------------------------------------------------------
(* Harness: roundUpToNextHighestPowerOfTwo on every size_t of every width *)

InitRound ==
    /\ NoRun
    /\ bits \in 1..MaxBits
    /\ heap = <<>>
    /\ bufs = <<>>
    /\ pc = "round"
    /\ \E arg \in 0..(Pow2(MaxBits) - 1) :
          /\ arg <= SIZE_MAX
          /\ call = [fn |-> "none", arg |-> arg]

RoundUpCall ==
    /\ pc = "round"
    /\ call.fn = "none"
    /\ call' = [fn |-> "roundUpToNextHighestPowerOfTwo", arg |-> call.arg,
                ret |-> roundUpToNextHighestPowerOfTwo(call.arg)]
    /\ UNCHANGED <<bits, heap, bufs, pc, runVars>>

NextRound == RoundUpCall

SpecRound == InitRound /\ [][NextRound]_vars

---------------------------------------------------------------------------
(* Harness: extendHeapBuffer and freeHeapBuffer on one Buffer.  The caller *)
(* extends and stores only through a Buffer whose storage is valid (empty,  *)
(* or pointing to an allocated block); it may call freeHeapBuffer again on  *)
(* a Buffer it has already freed.                                          *)

StoreValues == {R(1)}

ValidBuffer(h, b) == b.heapPointer = NULL \/ IsLive(h, b.heapPointer)

InitBuffer ==
    /\ NoRun
    /\ bits \in {MaxBits}
    /\ heap = <<>>
    /\ bufs = [buf |-> EmptyBuffer]
    /\ pc = "buffer"
    /\ call = [fn |-> "none"]

BufExtend ==
    /\ pc = "buffer"
    /\ ValidBuffer(heap, bufs.buf)
    /\ Len(heap) < MaxBlocks
    /\ \E newSize \in 0..MaxSize, ok \in BOOLEAN :
         \E garbage \in [1..(newSize - bufs.buf.size) -> HeapJunk] :
            LET r == extendHeapBuffer(heap, bufs.buf, newSize, ok, garbage)
            IN  /\ heap' = r.heap
                /\ bufs' = [bufs EXCEPT !.buf = r.buf]
                /\ call' = [fn |-> "extendHeapBuffer", oldBuf |-> bufs.buf,
                            before |-> Contents(heap, bufs.buf),
                            newSize |-> newSize, rc |-> r.rc]
    /\ UNCHANGED <<bits, pc, runVars>>

BufStore ==
    /\ pc = "buffer"
    /\ IsLive(heap, bufs.buf.heapPointer)
    /\ \E i \in 1..bufs.buf.size, v \in StoreValues :
         heap' = [heap EXCEPT ![bufs.buf.heapPointer].data[i] = v]
    /\ call' = [fn |-> "store"]
    /\ UNCHANGED <<bits, bufs, pc, runVars>>

\* freeHeapBuffer(&buf).  free() of a block that is already released is
\* undefined: the allocator aborts the program or carries on.
BufFree ==
    /\ pc = "buffer"
    /\ LET nth == IF call.fn = "freeHeapBuffer" THEN call.nth + 1 ELSE 1
       IN  /\ nth <= MaxFrees
           /\ heap' = freeHeapBuffer(heap, bufs.buf)
           /\ call' = [fn |-> "freeHeapBuffer", nth |-> nth, heapBefore |-> heap]
           /\ pc' \in (IF ValidBuffer(heap, bufs.buf) THEN {"buffer"}
                       ELSE {"buffer", "aborted"})
    /\ UNCHANGED <<bits, bufs, runVars>>

NextBuffer == BufExtend \/ BufStore \/ BufFree

SpecBuffer == InitBuffer /\ [][NextBuffer]_vars

---------------------------------------------------------------------------
(* Harness: one call of calculatePowerSpectrum, or of the fft it is built  *)
(* on.  The caller's two arrays are blocks 1 (timeSeriesData) and 2        *)
(* (powerSpectrum, or the F of fft).  N is either a length the arrays can  *)
(* hold, or a length above SIZE_MAX / 2.                                   *)

SeriesValues == {Zero, R(1), R(2)}

\* what the output array holds before the call
Untouched == R(-1)

\* the longest float array an object of this platform can be, up to MaxSeries
ArrayLimit == IF MaxSeries * sizeofFloat <= SIZE_MAX THEN MaxSeries
              ELSE SIZE_MAX \div sizeofFloat

InitPower ==
    /\ NoRun
    /\ bits \in {SizeBits}
    /\ pc = "power"
    /\ call = [fn |-> "none"]
    /\ \E len \in 0..MaxSeries :
          /\ len <= ArrayLimit
          /\ \E x \in [1..len -> SeriesValues] :
                /\ heap = <<NewBlock(x), NewBlock([i \in 1..ArrayLimit |-> Untouched])>>
                /\ bufs = [timeSeriesData |-> [heapPointer |-> 1, size |-> len],
                           powerSpectrum |-> [heapPointer |-> 2, size |-> ArrayLimit]]

PowerCall ==
    /\ pc = "power"
    /\ call.fn = "none"
    /\ \E N \in (0..MaxSeries) \cup {SIZE_MAX \div 2 + 1, SIZE_MAX},
          oks \in [1..3 -> BOOLEAN], zeroNull \in BOOLEAN :
          /\ \/ /\ N <= bufs.timeSeriesData.size
                /\ roundUpToNextHighestPowerOfTwo(N) <= bufs.powerSpectrum.size
             \/ N > SIZE_MAX \div 2
          /\ \E r \in {calculatePowerSpectrum(heap, bufs.powerSpectrum.heapPointer,
                                               heap[1].data, N, oks, zeroNull)} :
                 /\ heap' = r.heap
                 /\ call' = [fn |-> "calculatePowerSpectrum", N |-> N, rc |-> r.rc,
                             reads |-> r.reads, writes |-> r.writes,
                             calls |-> r.calls, crashed |-> r.crashed,
                             before |-> heap[2].data]
                 /\ pc' = IF r.crashed THEN "crashed" ELSE "power"
    /\ UNCHANGED <<bits, bufs, runVars>>

\* fft(F, x, N) with F the caller's block 2 and x its block 1
FftCall ==
    /\ pc = "power"
    /\ call.fn = "none"
    /\ \E N \in (0..MaxSeries) \cup {SIZE_MAX \div 2 + 1, SIZE_MAX},
          oks \in [1..2 -> BOOLEAN], zeroNull \in BOOLEAN :
          /\ \/ /\ N <= bufs.timeSeriesData.size
                /\ roundUpToNextHighestPowerOfTwo(N) <= bufs.powerSpectrum.size
             \/ N > SIZE_MAX \div 2
          /\ \E r \in {fft(heap, heap[1].data, N, oks[1], oks[2], zeroNull)} :
                 /\ heap' = [r.heap EXCEPT ![2].data =
                                [i \in 1..Len(@) |->
                                    IF i <= Len(r.F) THEN r.F[i] ELSE @[i]]]
                 /\ call' = [fn |-> "fft", N |-> N, rc |-> r.rc,
                             spectrum |-> r.Fcplx, F |-> r.F,
                             reads |-> r.reads, calls |-> r.calls,
                             crashed |-> r.crashed, before |-> heap[2].data]
                 /\ pc' = IF r.crashed THEN "crashed" ELSE "power"
    /\ UNCHANGED <<bits, bufs, runVars>>

NextPower == PowerCall \/ FftCall

SpecPower == InitPower /\ [][NextPower]_vars

---------------------------------------------------------------------------
(* Harness: one elementwise division, through calculateRAO or              *)
(* calculateWaveEnergySpectrum, on arrays of len elements of which the     *)
(* first N are divided.                                                    *)

NumeratorValues == {Zero, R(1), R(3)}
DenominatorValues == {Zero, R(1), R(3), INFINITY}

InitDivide ==
    /\ NoRun
    /\ bits \in {SizeBits}
    /\ heap = <<>>
    /\ bufs = <<>>
    /\ pc = "divide"
    /\ call = [fn |-> "none"]

DivideRAO ==
    /\ pc = "divide"
    /\ call.fn = "none"
    /\ \E len \in 1..MaxBins :
         \E N \in 0..len, heaveSpectrum \in [1..len -> NumeratorValues],
            waveSpectrum \in [1..len -> DenominatorValues] :
            LET RAO == [i \in 1..len |-> Untouched]
            IN  call' = [fn |-> "calculateRAO", N |-> N, before |-> RAO,
                         numerator |-> heaveSpectrum, denominator |-> waveSpectrum,
                         result |-> calculateRAO(RAO, heaveSpectrum, waveSpectrum, N)]
    /\ UNCHANGED <<bits, heap, bufs, pc, runVars>>

DivideWaveEnergy ==
    /\ pc = "divide"
    /\ call.fn = "none"
    /\ \E len \in 1..MaxBins :
         \E N \in 0..len, heaveSpectrum \in [1..len -> NumeratorValues],
            RAO \in [1..len -> DenominatorValues] :
            LET waveSpectrum == [i \in 1..len |-> Untouched]
            IN  call' = [fn |-> "calculateWaveEnergySpectrum", N |-> N,
                         before |-> waveSpectrum,
                         numerator |-> heaveSpectrum, denominator |-> RAO,
                         result |-> calculateWaveEnergySpectrum(
                                        waveSpectrum, heaveSpectrum, RAO, N)]
    /\ UNCHANGED <<bits, heap, bufs, pc, runVars>>

NextDivide == DivideRAO \/ DivideWaveEnergy

SpecDivide == InitDivide /\ [][NextDivide]_vars

---------------------------------------------------------------------------
(* Claims *)

\* C1 (as claimed): after a successful extendHeapBuffer(buf, newSize) with
\* newSize > buf.size, buf.size is newSize, every old element keeps its
\* value and every new element is exactly 0.0, whatever the heap held.
C1_ExtendZeroFills ==
    (call.fn = "extendHeapBuffer" /\ call.rc = 0 /\ call.newSize > call.oldBuf.size)
    => /\ bufs.buf.size = call.newSize
       /\ Len(Contents(heap, bufs.buf)) = call.newSize
       /\ \A i \in 1..call.oldBuf.size : Contents(heap, bufs.buf)[i] = call.before[i]
       /\ \A i \in (call.oldBuf.size + 1)..call.newSize :
             Contents(heap, bufs.buf)[i] = Zero

\* C4 (as claimed): calling freeHeapBuffer two or more times in a row on the
\* same Buffer releases its storage at most once, and the second and later
\* calls change nothing.
C4_FreeIdempotent ==
    (call.fn = "freeHeapBuffer")
    => /\ \A p \in 1..Len(heap) : heap[p].released <= 1
       /\ (call.nth >= 2 => heap = call.heapBefore /\ pc = "buffer")

IsPowerOfTwo(p) == \E k \in 0..bits : p = Pow2(k)

\* C5: roundUpToNextHighestPowerOfTwo(n) over size_t of width bits returns,
\* for 1 <= n <= SIZE_MAX/2, the smallest power of two >= n, and its loop
\* neither wraps nor runs forever; for n > SIZE_MAX/2 it returns 0; it
\* returns 1 for n = 1 and 8 for n = 5.
C5_RoundUp ==
    (call.fn = "roundUpToNextHighestPowerOfTwo")
    => /\ (1 <= call.arg /\ call.arg <= SIZE_MAX \div 2)
            => /\ call.ret # -1
               /\ IsPowerOfTwo(call.ret)
               /\ call.ret >= call.arg
               /\ \A q \in 1..SIZE_MAX :
                     (IsPowerOfTwo(q) /\ q >= call.arg) => call.ret <= q
       /\ (call.arg > SIZE_MAX \div 2) => call.ret = 0
       /\ (call.arg = 1 /\ 1 <= SIZE_MAX \div 2) => call.ret = 1
       /\ (call.arg = 5 /\ 5 <= SIZE_MAX \div 2) => call.ret = 8

C5_Witness ==
    /\ call.fn = "roundUpToNextHighestPowerOfTwo"
    /\ call.arg = 5
    /\ call.ret = 8
    /\ bits = 4

\* C6 (as claimed): for a length N that is 0 or above SIZE_MAX / 2 the
\* power-of-two padding reports failure, and calculatePowerSpectrum returns
\* nonzero without reading an input sample, writing an output bin or
\* starting the FFT recursion.
C6_PaddingRejectsZeroAndHuge ==
    (call.fn = "calculatePowerSpectrum" /\ (call.N = 0 \/ call.N > SIZE_MAX \div 2))
    => /\ roundUpToNextHighestPowerOfTwo(call.N) = 0
       /\ ~call.crashed
       /\ call.rc # 0
       /\ call.reads = 0
       /\ call.writes = 0
       /\ call.calls = <<>>
       /\ heap[2].data = call.before

IsDivision == call.fn \in {"calculateRAO", "calculateWaveEnergySpectrum"}

\* C10: the elementwise division on the first N bins gives +infinity where
\* the denominator is 0 and numerator / denominator elsewhere, and writes
\* nothing outside result[0..N-1]; so a spectrum without zero bins divided
\* by itself is all ones, and any spectrum divided by an all-zero spectrum
\* is all +infinity.
C10_ElementWiseDivide ==
    IsDivision
    => /\ Len(call.result) = Len(call.before)
       /\ \A i \in 1..Len(call.result) :
            /\ (i <= call.N /\ call.denominator[i] = Zero)
                  => call.result[i] = INFINITY
            /\ (i <= call.N /\ call.denominator[i] # Zero
                  /\ IsFinite(call.denominator[i]))
                  => /\ IsFinite(call.result[i])
                     /\ RMul(call.result[i], call.denominator[i]) = call.numerator[i]
            /\ (i <= call.N /\ call.denominator[i] = INFINITY)
                  => call.result[i] = Zero
            /\ (i > call.N) => call.result[i] = call.before[i]
       /\ (/\ call.numerator = call.denominator
           /\ \A i \in 1..call.N : call.denominator[i] # Zero)
            => \A i \in 1..call.N : call.result[i] = One
       /\ (\A i \in 1..call.N : call.denominator[i] = Zero)
            => \A i \in 1..call.N : call.result[i] = INFINITY

C10_Witness ==
    /\ call.fn = "calculateRAO"
    /\ call.N = 2
    /\ Len(call.result) = 3
    /\ call.numerator = <<Zero, R(3), R(1)>>
    /\ call.denominator = <<Zero, R(1), R(3)>>
    /\ call.result = <<INFINITY, R(3), Untouched>>

InLog(caller, fn) == \E i \in 1..Len(log) : log[i] = Called(caller, fn)

Returned(function) == InLog(function, "return")

\* C2 (as claimed): estimateWaveSpectrum zero-extends and never truncates:
\* the length it passes to calculatePowerSpectrum is at least the number m of
\* acceleration samples, and the samples after the m-th are zeros.
C2_NeverTruncates ==
    (call.fn = "calculatePowerSpectrum" /\ call.in = "estimateWaveSpectrum")
    => LET m == Len(files.accel.values)
       IN  /\ call.N >= m
           /\ \A i \in (m + 1)..call.N : call.x[i] = Zero

\* C3 (as claimed): when main returns 1, every heap block allocated during
\* the run has been released exactly once.
C3_FailureReleasesEverything ==
    (pc = "done" /\ rv.main = 1)
    => \A p \in 1..Len(heap) : ~heap[p].live /\ heap[p].released = 1

IntegrationStarted == call.fn = "numericalIntegration" /\ Len(call.steps) >= 1

\* the steps after the first use the original accel[i-1] and accel[i]
LaterStepsUseOriginalSamples ==
    /\ Len(call.steps) = Len(call.accel)
    /\ call.steps[1].oldState = [position |-> Zero, speed |-> Zero]
    /\ call.steps[1].current = call.accel[1]
    /\ \A i \in 2..Len(call.steps) :
          /\ call.steps[i].previous = call.accel[i - 1]
          /\ call.steps[i].current = call.accel[i]

\* C7 (as claimed): the first integration step of numericalIntegration uses
\* accel[0] as both the previous and the current acceleration; every later
\* step i uses the original accel[i-1] and accel[i]; position and speed
\* start at 0.
C7_FirstStepUsesFirstSample ==
    IntegrationStarted
    => /\ call.steps[1].previous = call.accel[1]
       /\ LaterStepsUseOriginalSamples

\* C7 (amended): the first integration step uses 0 as the previous
\* acceleration and accel[0] as the current one; every later step i uses the
\* original accel[i-1] and accel[i]; position and speed start at 0.
C7_FirstStepUsesZero ==
    IntegrationStarted
    => /\ call.steps[1].previous = Zero
       /\ LaterStepsUseOriginalSamples

C7_Witness ==
    /\ IntegrationStarted
    /\ Len(call.accel) >= 3
    /\ call.accel[1] # Zero
    /\ call.steps[1].previous = Zero
    /\ call.steps[3].previous = call.accel[2]

\* both calibration files were read, and hold different numbers of values
CalibrationMismatch ==
    /\ bufs.heaveDisplacementBuffer.heapPointer # NULL
    /\ bufs.waveElevationBuffer.heapPointer # NULL
    /\ Len(files.heave.values) # Len(files.wave.values)

\* C8: characteriseRAO on two calibration series of different lengths returns
\* failure; no spectrum buffer is allocated or extended, no uncertainty
\* sample drawn and no power spectrum or RAO computed, and the RAO buffer is
\* still empty when it returns.
C8_MismatchRejected ==
    CalibrationMismatch
    => /\ ~InLog("characteriseRAO", "extendHeapBuffer")
       /\ ~InLog("characteriseRAO", "applyUncertainty")
       /\ ~InLog("characteriseRAO", "calculatePowerSpectrum")
       /\ ~InLog("characteriseRAO", "calculateRAO")
       /\ bufs.heaveSpectrumBuffer = EmptyBuffer
       /\ bufs.waveSpectrumBuffer = EmptyBuffer
       /\ bufs.RAOBuffer = EmptyBuffer
       /\ pc \in {"rao_check", "rao_RETURN", "EXIT_PROGRAM", "done"}
       /\ (Returned("characteriseRAO") => rv.characteriseRAO = 1)

C8_Witness ==
    /\ CalibrationMismatch
    /\ Len(files.heave.values) = 4
    /\ Len(files.wave.values) = 3
    /\ Returned("characteriseRAO")
    /\ rv.characteriseRAO = 1
    /\ bufs.RAOBuffer = EmptyBuffer

\* the acceleration file holds more than SIZE_MAX / 2 values
OversizedAcceleration ==
    files.accel.exists /\ Len(files.accel.values) > SIZE_MAX \div 2

\* C9: estimateWaveSpectrum on an acceleration series of more than
\* SIZE_MAX / 2 samples returns failure, rejecting it before any uncertainty
\* sampling, integration, buffer extension or transform; the wave spectrum
\* estimate buffer is left untouched.
C9_OversizedRejectedUpFront ==
    OversizedAcceleration
    => /\ ~InLog("estimateWaveSpectrum", "applyUncertainty")
       /\ ~InLog("estimateWaveSpectrum", "numericalIntegration")
       /\ ~InLog("estimateWaveSpectrum", "extendHeapBuffer")
       /\ ~InLog("estimateWaveSpectrum", "calculatePowerSpectrum")
       /\ ~InLog("estimateWaveSpectrum", "calculateWaveEnergySpectrum")
       /\ bufs.waveSpectrumEstimateBuffer = EmptyBuffer
       /\ bufs.heaveSpectrumBufferEst = EmptyBuffer
       /\ rv.estimateWaveSpectrum = 1
       /\ pc \in {"est_RETURN", "EXIT_PROGRAM", "done"}

C9_Witness ==
    /\ OversizedAcceleration
    /\ Returned("estimateWaveSpectrum")
    /\ rv.estimateWaveSpectrum = 1
    /\ ~InLog("estimateWaveSpectrum", "applyUncertainty")

\* the power of two the calibration series of n values is padded to
PaddedLength(n) ==
    CHOOSE p \in 1..SIZE_MAX :
        IsPowerOfTwo(p) /\ p >= n /\ \A q \in n..(p - 1) : ~IsPowerOfTwo(q)

Succeeded(function) == Returned(function) /\ rv[function] = 0

\* C11: after a successful characteriseRAO on calibration series of n values
\* RAOBuffer.size is the next power of two >= n (it is that from the moment
\* the RAO buffer has storage); at every elementwise division the result,
\* numerator and denominator buffers all have exactly N = RAOBuffer.size
\* elements; and after a successful estimateWaveSpectrum the estimate buffer
\* has exactly RAOBuffer.size elements.
C11_SpectraShareTheRAOLength ==
    /\ (bufs.RAOBuffer.heapPointer # NULL \/ Succeeded("characteriseRAO"))
          => /\ bufs.RAOBuffer.size = PaddedLength(Len(files.heave.values))
             /\ (pc # "done"
                   => Len(Contents(heap, bufs.RAOBuffer)) = bufs.RAOBuffer.size)
    /\ IsDivision
          => /\ call.N = bufs.RAOBuffer.size
             /\ call.sizes = <<call.N, call.N, call.N>>
             /\ Len(call.before) = call.N
             /\ Len(call.numerator) = call.N
             /\ Len(call.denominator) = call.N
             /\ Len(call.result) = call.N
    /\ Succeeded("estimateWaveSpectrum")
          => /\ bufs.waveSpectrumEstimateBuffer.size = bufs.RAOBuffer.size
             /\ (pc # "done"
                   => Len(Contents(heap, bufs.waveSpectrumEstimateBuffer))
                         = bufs.RAOBuffer.size)

C11_Witness ==
    /\ Succeeded("characteriseRAO")
    /\ Succeeded("estimateWaveSpectrum")
    /\ Len(files.heave.values) = 3
    /\ Len(files.accel.values) = 1
    /\ bufs.RAOBuffer.size = 4
    /\ bufs.waveSpectrumEstimateBuffer.size = 4

\* heave = [1,2,1,0], elevation = [0.5,1,0.5,0], no uncertainty
ProportionalCalibration ==
    /\ files.heave = ProportionalHeave
    /\ files.wave = ProportionalElevation
    /\ args.heaveMeasurementUncertainty = Zero
    /\ args.waveElevationUncertainty = Zero

\* C12: calibration with heave = [1,2,1,0], elevation = [0.5,1,0.5,0] and
\* zero uncertainty yields an RAO of length 4 whose finite entries (bins 0, 1
\* and 3) are all 4, and whose only non-finite entry is the bin where the
\* elevation power is 0.
C12_ProportionalCalibrationGivesFour ==
    (ProportionalCalibration /\ call.fn = "calculateRAO")
    => /\ call.result = <<R(4), R(4), INFINITY, R(4)>>
       /\ Contents(heap, bufs.RAOBuffer) = call.result
       /\ bufs.RAOBuffer.size = 4
       /\ \A i \in 1..4 : ~IsFinite(call.result[i]) <=> call.denominator[i] = Zero
       /\ \A i \in 1..4 : IsFinite(call.result[i]) => call.result[i] = R(4)

C12_Witness ==
    /\ ProportionalCalibration
    /\ call.fn = "calculateRAO"
    /\ call.numerator = <<R(16), R(4), Zero, R(4)>>
    /\ call.denominator = <<R(4), R(1), Zero, R(1)>>
    /\ call.result[1] = R(4)

\* x zero-padded to P complex samples
ZeroPadded(x, N, P) ==
    [i \in 1..P |-> IF i <= N THEN [real |-> x[i], imaginary |-> Zero]
                    ELSE ComplexZero]

\* e^{-2 pi i k n / N} for an angle of whole quarter turns: 1, -i, -1, i
RootOfUnity(k, n, N) ==
    LET quarterTurns == ((4 * k * n) \div N) % 4
    IN  [real |-> IF quarterTurns = 0 THEN R(1)
                  ELSE IF quarterTurns = 2 THEN R(-1) ELSE Zero,
         imaginary |-> IF quarterTurns = 1 THEN R(-1)
                       ELSE IF quarterTurns = 3 THEN R(1) ELSE Zero]

\* the sum over the first count samples of x[n] e^{-2 pi i k n / N}
RECURSIVE DFTSum(_, _, _, _)
DFTSum(x, k, N, count) ==
    IF count = 0 THEN ComplexZero
    ELSE complexAdd(DFTSum(x, k, N, count - 1),
                    complexMultiply(x[count], RootOfUnity(k, count - 1, N)))

\* bin k of the discrete Fourier transform of the N complex samples x
DFT(x, k, N) == DFTSum(x, k, N, N)

SquaredMagnitude(A) == RAdd(RMul(A.real, A.real), RMul(A.imaginary, A.imaginary))

\* C13: a successful calculatePowerSpectrum on N samples, 1 <= N <=
\* SIZE_MAX/2, writes exactly the bins 0 .. P-1 of the output, P the next
\* power of two >= N, each the squared magnitude of the same bin of the
\* transform of the zero-padded input, and leaves every element from index P
\* on as it was.
C13_PowerSpectrumBins ==
    (/\ call.fn = "calculatePowerSpectrum"
     /\ 1 <= call.N /\ call.N <= SIZE_MAX \div 2
     /\ call.rc = 0)
    => LET P == PaddedLength(call.N)
           padded == ZeroPadded(heap[1].data, call.N, P)
           S == heap[2].data
       IN  /\ ~call.crashed
           /\ call.writes = P
           /\ call.reads = call.N
           /\ Len(S) = Len(call.before)
           /\ \A i \in 1..Len(S) :
                 IF i <= P THEN S[i] = SquaredMagnitude(DFT(padded, i - 1, P))
                 ELSE S[i] = call.before[i]

C13_Witness ==
    /\ call.fn = "calculatePowerSpectrum"
    /\ call.rc = 0
    /\ call.N = 2
    /\ heap[1].data = <<R(1), R(2), R(2)>>
    /\ heap[2].data = <<R(9), R(1), Untouched, Untouched>>

\* C14: an extendHeapBuffer(buf, newSize) with newSize > buf.size whose
\* allocation fails returns nonzero and leaves the Buffer empty: size 0 and
\* no storage behind it, so nothing can be read through it.
C14_FailedExtendLeavesEmpty ==
    (call.fn = "extendHeapBuffer" /\ call.newSize > call.oldBuf.size /\ call.rc # 0)
    => /\ bufs.buf = EmptyBuffer
       /\ Contents(heap, bufs.buf) = <<>>

C14_Witness ==
    /\ call.fn = "extendHeapBuffer"
    /\ call.rc # 0
    /\ call.oldBuf.size = 1
    /\ call.newSize = 2
    /\ call.before = <<R(1)>>
    /\ bufs.buf = EmptyBuffer

\* the read of this input file failed: the file was looked for and is
\* missing or holds no value, or readFloatsFromFileToHeapBuffer returned
\* nonzero
ReadFailed(input) ==
    \/ rv[input] # 0
    \/ files[input] # Unread
          /\ (~files[input].exists \/ Len(files[input].values) = 0)

ReadsBy(function) ==
    Cardinality({i \in 1..Len(log) :
                    log[i] = Called(function, "readFloatsFromFileToHeapBuffer")})

NoLaterStage(function) ==
    \A fn \in {"extendHeapBuffer", "applyUncertainty", "numericalIntegration",
               "calculatePowerSpectrum", "calculateRAO",
               "calculateWaveEnergySpectrum"} : ~InLog(function, fn)

NeverEntered(function) == \A i \in 1..Len(log) : log[i].in # function

\* C15: when reading one of the three input files fails, the calling
\* operation returns failure at once: the read is not retried and no later
\* stage of the operation runs; estimateWaveSpectrum is never entered after a
\* failed characteriseRAO; and main returns 1 without printing a spectrum
\* line.
C15_ReadFailureIsFatal ==
    /\ ReadFailed("heave")
          => /\ ReadsBy("characteriseRAO") = 1
             /\ files.wave = Unread
    /\ ReadFailed("wave")
          => ReadsBy("characteriseRAO") = 2
    /\ (\/ ReadFailed("heave")
        \/ ReadFailed("wave"))
          => /\ NoLaterStage("characteriseRAO")
             /\ rv.characteriseRAO = 1
             /\ pc \in {"rao_RETURN", "EXIT_PROGRAM", "done"}
             /\ NeverEntered("estimateWaveSpectrum")
             /\ files.accel = Unread
             /\ bufs.RAOBuffer = EmptyBuffer
    /\ ReadFailed("accel")
          => /\ ReadsBy("estimateWaveSpectrum") = 1
             /\ NoLaterStage("estimateWaveSpectrum")
             /\ rv.estimateWaveSpectrum = 1
             /\ pc \in {"est_RETURN", "EXIT_PROGRAM", "done"}
    /\ (\/ ReadFailed("heave")
        \/ ReadFailed("wave")
        \/ ReadFailed("accel"))
          => /\ printed = <<>>
             /\ (pc \in {"EXIT_PROGRAM", "done"} => rv.main = 1)

C15_Witness ==
    /\ files.heave.exists
    /\ bufs.heaveDisplacementBuffer.heapPointer # NULL
    /\ ReadFailed("wave")
    /\ ~files.wave.exists
    /\ pc = "done"
    /\ rv.main = 1
    /\ printed = <<>>

\* C16 (as claimed): for every length N given to fft, every invocation of
\* dit2FFT, the top-level one and each recursive one, has a length that is a
\* power of two >= 1, so the recursion reaches N == 1 and ends.
C16_RecursionLengthsArePowersOfTwo ==
    (call.fn = "fft")
    => /\ ~call.crashed
       /\ \A i \in 1..Len(call.calls) :
             call.calls[i] >= 1 /\ IsPowerOfTwo(call.calls[i])

IsFftOfPaddedSeries ==
    /\ call.fn = "fft"
    /\ call.rc = 0
    /\ 1 <= call.N /\ call.N <= SIZE_MAX \div 2

\* every second sample of x, from the first (offset 0) or the second (offset 1)
EveryOther(x, offset) == [j \in 1..(Len(x) \div 2) |-> x[2 * j - 1 + offset]]

\* C17: for a power-of-two length P in {1, 2, 4} and stride 1 dit2FFT leaves
\* in bin k the sum over n < P of x[n] e^{-2 pi i k n / P}; for P >= 2 that is
\* even[k] + twiddle odd[k] in bin k and even[k] - twiddle odd[k] in bin
\* k + P/2, even and odd being the transforms of the even-indexed and the
\* odd-indexed samples and twiddle = e^{-2 pi i k / P}; and an all-zero
\* series has an all-zero magnitude spectrum.
C17_Dit2FFTIsTheDFT ==
    IsFftOfPaddedSeries
    => LET P == PaddedLength(call.N)
           half == P \div 2
           x == ZeroPadded(heap[1].data, call.N, P)
           X == call.spectrum
           even == EveryOther(x, 0)
           odd == EveryOther(x, 1)
       IN  /\ ~call.crashed
           /\ Len(X) = P
           /\ \A k \in 0..(P - 1) : X[k + 1] = DFT(x, k, P)
           /\ \A k \in 0..(half - 1) :
                 LET twiddleOdd == complexMultiply(RootOfUnity(k, 1, P),
                                                   DFT(odd, k, half))
                 IN  /\ X[k + 1] = complexAdd(DFT(even, k, half), twiddleOdd)
                     /\ X[k + half + 1]
                           = complexSubtract(DFT(even, k, half), twiddleOdd)
           /\ \A i \in 1..P : call.F[i] = Sqrtf(SquaredMagnitude(X[i]))
           /\ \A i \in 1..P : heap[2].data[i] = call.F[i]
           /\ (\A i \in 1..call.N : heap[1].data[i] = Zero)
                 => \A i \in 1..P : call.F[i] = Sqrtf(Zero)

C17_Witness ==
    /\ IsFftOfPaddedSeries
    /\ call.N = 3
    /\ heap[1].data = <<R(1), R(2), R(1)>>
    /\ call.spectrum = <<[real |-> R(4), imaginary |-> Zero],
                         [real |-> Zero, imaginary |-> R(-2)],
                         [real |-> Zero, imaginary |-> Zero],
                         [real |-> Zero, imaginary |-> R(2)]>>

\* C18: in every run of characteriseRAO followed by estimateWaveSpectrum every
\* array access stays inside the buffer it touches: at each
\* calculatePowerSpectrum call the input buffer holds at least N elements and
\* the output buffer at least the next power of two >= N, every index dit2FFT
\* uses on x and F is below that padded length, and each elementwise division
\* touches only indices below the size of its three buffers.
C18_AccessesStayInBounds ==
    /\ pc # "crashed"
    /\ call.fn = "calculatePowerSpectrum"
          => LET P == PaddedLength(call.N)
             IN  /\ call.N >= 1
                 /\ call.sizes[2] >= call.N
                 /\ Len(call.x) >= call.N
                 /\ call.sizes[1] >= P
                 /\ call.capacity >= P
                 /\ ~call.outOfBounds
                 /\ call.reads <= Len(call.x)
                 /\ call.writes <= call.capacity
                 /\ \A i \in call.indices.x \cup call.indices.F : i < P
    /\ IsDivision
          => /\ \A i \in 1..3 : call.N <= call.sizes[i]
             /\ call.N <= Len(call.before)
             /\ call.N <= Len(call.numerator)
             /\ call.N <= Len(call.denominator)

C18_Witness ==
    /\ call.fn = "calculatePowerSpectrum"
    /\ call.in = "estimateWaveSpectrum"
    /\ call.rc = 0
    /\ Len(files.accel.values) = 1
    /\ call.N = 4
    /\ Len(call.x) = 4
    /\ call.indices.x = 0..3
    /\ call.indices.F = 0..3

=============================================================================
